---- MODULE Spec2Model ----
(***************************************************************************)
(* Simple vectors (jl_svec_t) of the Julia runtime: the constructors and   *)
(* accessors of svec.c, over a heap of length-prefixed objects whose raw   *)
(* storage comes from the collector's allocator.                           *)
(***************************************************************************)
EXTENDS Integers, Sequences, FiniteSets, TLC

\* ------------------------------------------------------------------ bounds
\* Largest n a constructor is called with.
MaxLen == 2
\* Number of vectors the allocators hand out before the heap is full.
MaxVecs == 2
\* Number of objects the heap holds at once when threads run step by step.
MaxObjs == 2
\* Width in bits of size_t on the modelled machine.
SizeBits == 16

\* ------------------------------------------------------- values and memory
\* The null reference: the unassigned marker of a slot.
NULL == "NULL"
\* A word of raw storage that is neither null nor a reference to an object.
JUNK == "JUNK"
\* References (jl_value_t*) callers pass in.
Values == {"a", "b"}
\* Symbol names (const char*) callers pass to jl_perm_symsvec.
Names == {"p", "q"}
\* The symbol objects jl_symbol creates, in order of creation.
SymObjs == <<"s1", "s2">>
\* The process-wide empty simple vector.
jl_emptysvec == 0
\* A header word of raw storage read as a length: zero bits or anything else.
RawLengths == {0, MaxLen + 1}
\* What the allocator may hand back for an object of n slots: storage that
\* nobody cleared (header and slots hold whatever was there before).
RawObj(n) == [length : RawLengths, data : [1..n -> {NULL, JUNK}]]

VARIABLES heap, symtab, last, th, roots, written, szreq
vars == <<heap, symtab, last, th, roots, written, szreq>>
\* The state of the call-level operations, of the step-level threads, and of
\* the size computations.
callvars == <<heap, symtab, last>>
stepvars == <<th, roots, written>>

\* Addresses of the objects the allocators have handed out.
Allocated(h) == DOMAIN h \ {jl_emptysvec}
\* The lowest address not in use.
NextId(h) ==
    CHOOSE k \in 1..Cardinality(DOMAIN h) :
        k \notin DOMAIN h /\ \A j \in 1..(k - 1) : j \in DOMAIN h

\* ---------------------------------------------------- collaborators (julia.h, gc)
NewObj(h, raw, perm) ==
    [heap |-> h @@ (NextId(h) :> [length |-> raw.length, data |-> raw.data, perm |-> perm]),
     ret |-> NextId(h)]
\* jl_gc_alloc(ptls, sz, ty): a fresh collectible object over raw storage.
jl_gc_alloc(h, raw) == NewObj(h, raw, FALSE)
\* jl_gc_permobj(sz, ty): a fresh object in the permanent region.
jl_gc_permobj(h, raw) == NewObj(h, raw, TRUE)
\* jl_svec_set_len_unsafe(t, n): stamps the header.
jl_svec_set_len_unsafe(h, t, n) == [h EXCEPT ![t].length = n]
\* The macro jl_svec_len(t): reads the header.
svec_len(h, t) == h[t].length
\* jl_svecref(t, i): slot i (0-based), unchecked.
jl_svecref(h, t, i) == h[t].data[i + 1]
\* jl_svecset storing into the slot after i as well.
jl_svecset_spill(h, t, i, x) ==
    [h EXCEPT ![t].data = [k \in DOMAIN h[t].data |->
                              IF k \in {i + 1, i + 2} THEN x ELSE h[t].data[k]]]
\* jl_svecset(t, i, x): store x into slot i (0-based), unchecked.
jl_svecset(h, t, i, x) == [h EXCEPT ![t].data[i + 1] = x]
\* jl_symbol(name): the interned symbol of a name, created on first use.
jl_symbol(st, name) ==
    IF name \in DOMAIN st
    THEN [symtab |-> st, ret |-> st[name]]
    ELSE [symtab |-> st @@ (name :> SymObjs[Cardinality(DOMAIN st) + 1]),
          ret |-> SymObjs[Cardinality(DOMAIN st) + 1]]

\* ------------------------------------------------------------ constructors
\* jl_alloc_svec_uninit without its n == 0 return.
jl_alloc_svec_uninit_noempty(h, n, raw) ==
    LET r == jl_gc_alloc(h, raw)
    IN  [heap |-> jl_svec_set_len_unsafe(r.heap, r.ret, n), ret |-> r.ret]

\* jl_alloc_svec_uninit clearing the slots it hands out.
jl_alloc_svec_uninit_zeroed(h, n, raw) ==
    IF n = 0 THEN [heap |-> h, ret |-> jl_emptysvec]
    ELSE LET r == jl_gc_alloc(h, [raw EXCEPT !.data = [k \in 1..n |-> NULL]])
         IN  [heap |-> jl_svec_set_len_unsafe(r.heap, r.ret, n), ret |-> r.ret]

jl_alloc_svec_uninit(h, n, raw) ==
    IF n = 0 THEN [heap |-> h, ret |-> jl_emptysvec]
    ELSE LET r == jl_gc_alloc(h, raw)
         IN  [heap |-> jl_svec_set_len_unsafe(r.heap, r.ret, n), ret |-> r.ret]

RECURSIVE svec_loop(_, _, _, _, _)
svec_loop(h, jv, i, n, args) ==
    IF i < n THEN svec_loop(jl_svecset(h, jv, i, args[i + 1]), jv, i + 1, n, args)
    ELSE h

\* ijl_svec storing its arguments last to first.
ijl_svec_reversed(h, n, args, raw) ==
    IF n = 0 THEN [heap |-> h, ret |-> jl_emptysvec]
    ELSE LET r == jl_alloc_svec_uninit(h, n, raw)
         IN  [heap |-> svec_loop(r.heap, r.ret, 0, n, [k \in 1..n |-> args[n + 1 - k]]),
              ret |-> r.ret]

ijl_svec(h, n, args, raw) ==
    IF n = 0 THEN [heap |-> h, ret |-> jl_emptysvec]
    ELSE LET r == jl_alloc_svec_uninit(h, n, raw)
         IN  [heap |-> svec_loop(r.heap, r.ret, 0, n, args), ret |-> r.ret]

RECURSIVE perm_loop(_, _, _, _, _, _)
perm_loop(h, st, jv, i, n, names) ==
    IF i < n
    THEN LET s == jl_symbol(st, names[i + 1])
         IN  perm_loop(jl_svecset(h, jv, i, s.ret), s.symtab, jv, i + 1, n, names)
    ELSE [heap |-> h, symtab |-> st]

\* jl_perm_symsvec handing back an earlier permanent vector of the same symbols.
jl_perm_symsvec_dedup(h, st, n, names, raw) ==
    LET same == {w \in Allocated(h) :
                    /\ h[w].perm /\ h[w].length = n
                    /\ \A k \in 1..n : names[k] \in DOMAIN st /\ h[w].data[k] = st[names[k]]}
    IN  IF n = 0 THEN [heap |-> h, symtab |-> st, ret |-> jl_emptysvec]
        ELSE IF same # {} THEN [heap |-> h, symtab |-> st, ret |-> CHOOSE w \in same : TRUE]
        ELSE LET r == jl_gc_permobj(h, raw)
                 l == perm_loop(jl_svec_set_len_unsafe(r.heap, r.ret, n), st, r.ret, 0, n, names)
             IN  [heap |-> l.heap, symtab |-> l.symtab, ret |-> r.ret]

jl_perm_symsvec(h, st, n, names, raw) ==
    IF n = 0 THEN [heap |-> h, symtab |-> st, ret |-> jl_emptysvec]
    ELSE LET r == jl_gc_permobj(h, raw)
             l == perm_loop(jl_svec_set_len_unsafe(r.heap, r.ret, n), st, r.ret, 0, n, names)
         IN  [heap |-> l.heap, symtab |-> l.symtab, ret |-> r.ret]

jl_svec1(h, a, raw) ==
    LET r == jl_gc_alloc(h, raw)
    IN  [heap |-> jl_svecset(jl_svec_set_len_unsafe(r.heap, r.ret, 1), r.ret, 0, a),
         ret |-> r.ret]

\* jl_svec2 stamping the length of jl_svec1.
jl_svec2_len1(h, a, b, raw) ==
    LET r == jl_gc_alloc(h, raw)
        h1 == jl_svec_set_len_unsafe(r.heap, r.ret, 1)
        h2 == jl_svecset(h1, r.ret, 0, a)
    IN  [heap |-> jl_svecset(h2, r.ret, 1, b), ret |-> r.ret]

jl_svec2(h, a, b, raw) ==
    LET r == jl_gc_alloc(h, raw)
        h1 == jl_svec_set_len_unsafe(r.heap, r.ret, 2)
        h2 == jl_svecset(h1, r.ret, 0, a)
    IN  [heap |-> jl_svecset(h2, r.ret, 1, b), ret |-> r.ret]

RECURSIVE alloc_loop(_, _, _, _)
alloc_loop(h, jv, i, n) ==
    IF i < n THEN alloc_loop(jl_svecset(h, jv, i, NULL), jv, i + 1, n)
    ELSE h

\* jl_alloc_svec without its loop, trusting the allocator to clear storage.
jl_alloc_svec_noloop(h, n, raw) ==
    IF n = 0 THEN [heap |-> h, ret |-> jl_emptysvec]
    ELSE jl_alloc_svec_uninit(h, n, raw)

jl_alloc_svec(h, n, raw) ==
    IF n = 0 THEN [heap |-> h, ret |-> jl_emptysvec]
    ELSE LET r == jl_alloc_svec_uninit(h, n, raw)
         IN  [heap |-> alloc_loop(r.heap, r.ret, 0, n), ret |-> r.ret]

RECURSIVE copy_loop(_, _, _, _, _)
copy_loop(h, c, a, i, n) ==
    IF i < n THEN copy_loop(jl_svecset(h, c, i, jl_svecref(h, a, i)), c, a, i + 1, n)
    ELSE h

\* jl_svec_copy handing back its source.
jl_svec_copy_alias(h, a, raw) == [heap |-> h, ret |-> a]

jl_svec_copy(h, a, raw) ==
    LET n == svec_len(h, a)
        r == jl_alloc_svec_uninit(h, n, raw)
    IN  [heap |-> copy_loop(r.heap, r.ret, a, 0, n), ret |-> r.ret]

RECURSIVE fill_loop(_, _, _, _, _)
fill_loop(h, v, i, n, x) ==
    IF i < n THEN fill_loop(jl_svecset(h, v, i, x), v, i + 1, n, x)
    ELSE h

\* jl_svec_fill with its loop starting at slot 1.
jl_svec_fill_from1(h, n, x, raw) ==
    IF n = 0 THEN [heap |-> h, ret |-> jl_emptysvec]
    ELSE LET r == jl_alloc_svec_uninit(h, n, raw)
         IN  [heap |-> fill_loop(r.heap, r.ret, 1, n, x), ret |-> r.ret]

jl_svec_fill(h, n, x, raw) ==
    IF n = 0 THEN [heap |-> h, ret |-> jl_emptysvec]
    ELSE LET r == jl_alloc_svec_uninit(h, n, raw)
         IN  [heap |-> fill_loop(r.heap, r.ret, 0, n, x), ret |-> r.ret]

\* --------------------------------------------------------------- accessors
jl_svec_len(h, t) == svec_len(h, t)

jl_svec_isassigned(h, t, i) == IF jl_svecref(h, t, i) # NULL THEN 1 ELSE 0

\* jl_svec_ref without its NULL check.
jl_svec_ref_unchecked(h, t, i) == [thrown |-> FALSE, val |-> jl_svecref(h, t, i)]

jl_svec_ref(h, t, i) ==
    LET v == jl_svecref(h, t, i)
    IN  IF v = NULL THEN [thrown |-> TRUE, val |-> NULL]
        ELSE [thrown |-> FALSE, val |-> v]

\* ------------------------------------------------------------------- state
\* The record of the last call: its name, its arguments, the raw storage the
\* allocator handed it, and what it returned.
NoCall ==
    [op |-> "none", n |-> 0, args |-> <<>>, t |-> jl_emptysvec, i |-> 0, x |-> NULL,
     raw |-> <<>>, ret |-> jl_emptysvec, val |-> NULL, thrown |-> FALSE]

\* No size computed yet.
NoSize == [op |-> "none", n |-> 0, size |-> 0]

\* The runtime after start-up: jl_emptysvec exists, no symbol is interned, no
\* call has been made, nothing is rooted.
Init ==
    /\ heap = (jl_emptysvec :> [length |-> 0, data |-> <<>>, perm |-> TRUE])
    /\ symtab = [nm \in {} |-> NULL]
    /\ last = NoCall
    /\ th = [t \in {} |-> NoCall]
    /\ roots = {}
    /\ written = [v \in {} |-> {}]
    /\ szreq = NoSize

\* The allocators hand out at most MaxVecs objects; a call with n = 0 needs none.
CanAlloc(n) == n = 0 \/ Cardinality(Allocated(heap)) < MaxVecs
\* The valid indices of vector t.
Indices(h, t) == 0 .. (svec_len(h, t) - 1)

Do_ijl_svec ==
    \E n \in 0..MaxLen : \E args \in [1..n -> Values] : \E raw \in RawObj(n) :
        /\ CanAlloc(n)
        /\ LET r == ijl_svec(heap, n, args, raw)
           IN  /\ heap' = r.heap
               /\ last' = [NoCall EXCEPT !.op = "ijl_svec", !.n = n, !.args = args,
                                         !.raw = raw.data, !.ret = r.ret]
        /\ UNCHANGED symtab

Do_jl_perm_symsvec ==
    \E n \in 0..MaxLen : \E names \in [1..n -> Names] : \E raw \in RawObj(n) :
        /\ CanAlloc(n)
        /\ LET r == jl_perm_symsvec(heap, symtab, n, names, raw)
           IN  /\ heap' = r.heap
               /\ symtab' = r.symtab
               /\ last' = [NoCall EXCEPT !.op = "jl_perm_symsvec", !.n = n, !.args = names,
                                         !.raw = raw.data, !.ret = r.ret]

Do_jl_svec1 ==
    \E a \in Values : \E raw \in RawObj(1) :
        /\ CanAlloc(1)
        /\ LET r == jl_svec1(heap, a, raw)
           IN  /\ heap' = r.heap
               /\ last' = [NoCall EXCEPT !.op = "jl_svec1", !.n = 1, !.args = <<a>>,
                                         !.raw = raw.data, !.ret = r.ret]
        /\ UNCHANGED symtab

Do_jl_svec2 ==
    \E a \in Values : \E b \in Values : \E raw \in RawObj(2) :
        /\ CanAlloc(2)
        /\ LET r == jl_svec2(heap, a, b, raw)
           IN  /\ heap' = r.heap
               /\ last' = [NoCall EXCEPT !.op = "jl_svec2", !.n = 2, !.args = <<a, b>>,
                                         !.raw = raw.data, !.ret = r.ret]
        /\ UNCHANGED symtab

Do_jl_alloc_svec_uninit ==
    \E n \in 0..MaxLen : \E raw \in RawObj(n) :
        /\ CanAlloc(n)
        /\ LET r == jl_alloc_svec_uninit(heap, n, raw)
           IN  /\ heap' = r.heap
               /\ last' = [NoCall EXCEPT !.op = "jl_alloc_svec_uninit", !.n = n,
                                         !.raw = raw.data, !.ret = r.ret]
        /\ UNCHANGED symtab

Do_jl_alloc_svec ==
    \E n \in 0..MaxLen : \E raw \in RawObj(n) :
        /\ CanAlloc(n)
        /\ LET r == jl_alloc_svec(heap, n, raw)
           IN  /\ heap' = r.heap
               /\ last' = [NoCall EXCEPT !.op = "jl_alloc_svec", !.n = n,
                                         !.raw = raw.data, !.ret = r.ret]
        /\ UNCHANGED symtab

Do_jl_svec_copy ==
    \E a \in DOMAIN heap : \E raw \in RawObj(svec_len(heap, a)) :
        /\ CanAlloc(svec_len(heap, a))
        /\ LET r == jl_svec_copy(heap, a, raw)
           IN  /\ heap' = r.heap
               /\ last' = [NoCall EXCEPT !.op = "jl_svec_copy", !.n = svec_len(heap, a),
                                         !.t = a, !.raw = raw.data, !.ret = r.ret]
        /\ UNCHANGED symtab

Do_jl_svec_fill ==
    \E n \in 0..MaxLen : \E x \in Values : \E raw \in RawObj(n) :
        /\ CanAlloc(n)
        /\ LET r == jl_svec_fill(heap, n, x, raw)
           IN  /\ heap' = r.heap
               /\ last' = [NoCall EXCEPT !.op = "jl_svec_fill", !.n = n, !.x = x,
                                         !.raw = raw.data, !.ret = r.ret]
        /\ UNCHANGED symtab

\* A caller's jl_svecset(t, i, x) on a vector it holds, at a valid index.
Do_jl_svecset ==
    \E t \in DOMAIN heap : \E i \in Indices(heap, t) : \E x \in Values \cup {NULL} :
        /\ heap' = jl_svecset(heap, t, i, x)
        /\ last' = [NoCall EXCEPT !.op = "jl_svecset", !.t = t, !.i = i, !.x = x, !.val = x]
        /\ UNCHANGED symtab

Do_jl_svec_len ==
    \E t \in DOMAIN heap :
        /\ last' = [NoCall EXCEPT !.op = "jl_svec_len", !.t = t, !.ret = jl_svec_len(heap, t)]
        /\ UNCHANGED <<heap, symtab>>

Do_jl_svec_isassigned ==
    \E t \in DOMAIN heap : \E i \in Indices(heap, t) :
        /\ last' = [NoCall EXCEPT !.op = "jl_svec_isassigned", !.t = t, !.i = i,
                                  !.ret = jl_svec_isassigned(heap, t, i)]
        /\ UNCHANGED <<heap, symtab>>

\* jl_svec_ref throwing a newly allocated exception object.
Do_jl_svec_ref_newexc ==
    \E t \in DOMAIN heap : \E i \in Indices(heap, t) : \E raw \in RawObj(1) :
        LET r == jl_svec_ref(heap, t, i)
        IN  /\ last' = [NoCall EXCEPT !.op = "jl_svec_ref", !.t = t, !.i = i,
                                      !.val = r.val, !.thrown = r.thrown]
            /\ heap' = IF r.thrown THEN jl_gc_alloc(heap, raw).heap ELSE heap
            /\ UNCHANGED symtab

Do_jl_svec_ref ==
    \E t \in DOMAIN heap : \E i \in Indices(heap, t) :
        /\ LET r == jl_svec_ref(heap, t, i)
           IN  last' = [NoCall EXCEPT !.op = "jl_svec_ref", !.t = t, !.i = i,
                                      !.val = r.val, !.thrown = r.thrown]
        /\ UNCHANGED <<heap, symtab>>

Next ==
    \/ Do_ijl_svec /\ UNCHANGED <<stepvars, szreq>>
    \/ Do_jl_perm_symsvec /\ UNCHANGED <<stepvars, szreq>>
    \/ Do_jl_svec1 /\ UNCHANGED <<stepvars, szreq>>
    \/ Do_jl_svec2 /\ UNCHANGED <<stepvars, szreq>>
    \/ Do_jl_alloc_svec_uninit /\ UNCHANGED <<stepvars, szreq>>
    \/ Do_jl_alloc_svec /\ UNCHANGED <<stepvars, szreq>>
    \/ Do_jl_svec_copy /\ UNCHANGED <<stepvars, szreq>>
    \/ Do_jl_svec_fill /\ UNCHANGED <<stepvars, szreq>>
    \/ Do_jl_svecset /\ UNCHANGED <<stepvars, szreq>>
    \/ Do_jl_svec_len /\ UNCHANGED <<stepvars, szreq>>
    \/ Do_jl_svec_isassigned /\ UNCHANGED <<stepvars, szreq>>
    \/ Do_jl_svec_ref /\ UNCHANGED <<stepvars, szreq>>

\* ---------------------------------------------------- allocation sizes
\* sizeof(void*) on the modelled machine, in bytes.
PtrBytes == 2
SizeMod == 2 ^ SizeBits
\* (n + 1) * sizeof(void*) as size_t arithmetic computes it.
svec_alloc_size(n) == (((n + 1) % SizeMod) * PtrBytes) % SizeMod
\* sizeof(void*) * k for a literal k.
svec_fixed_size(k) == (PtrBytes * k) % SizeMod
\* The bytes a constructor stores into: the header and n slots.
BytesStored(n) == (n + 1) * PtrBytes

Size_jl_alloc_svec_uninit ==
    \E n \in 1..(SizeMod - 1) :
        szreq' = [op |-> "jl_alloc_svec_uninit", n |-> n, size |-> svec_alloc_size(n)]

Size_jl_perm_symsvec ==
    \E n \in 1..(SizeMod - 1) :
        szreq' = [op |-> "jl_perm_symsvec", n |-> n, size |-> svec_alloc_size(n)]

Size_jl_svec1 == szreq' = [op |-> "jl_svec1", n |-> 1, size |-> svec_fixed_size(2)]

Size_jl_svec2 == szreq' = [op |-> "jl_svec2", n |-> 2, size |-> svec_fixed_size(3)]

\* One constructor call computes its size.
NextSize ==
    \/ szreq = NoSize /\ Size_jl_alloc_svec_uninit /\ UNCHANGED <<callvars, stepvars>>
    \/ szreq = NoSize /\ Size_jl_perm_symsvec /\ UNCHANGED <<callvars, stepvars>>
    \/ szreq = NoSize /\ Size_jl_svec1 /\ UNCHANGED <<callvars, stepvars>>
    \/ szreq = NoSize /\ Size_jl_svec2 /\ UNCHANGED <<callvars, stepvars>>

Spec == Init /\ [][Next]_vars

SpecSize == Init /\ [][NextSize]_vars

\* ------------------------------------------------- threads, step by step
\* The threads that run constructors concurrently.
Threads == {1, 2}

NoEvents == [gc |-> 0, perm |-> 0, writes |-> 0, va |-> 0, interns |-> 0]
\* A thread outside every call.
IdleFrame ==
    [pc |-> "idle", op |-> "none", n |-> 0, args |-> <<>>, a |-> jl_emptysvec, x |-> NULL,
     jv |-> jl_emptysvec, i |-> 0, sym |-> NULL, raw |-> <<>>, ret |-> jl_emptysvec,
     ev |-> NoEvents]

\* The n == 0 return at the top of ijl_svec, jl_perm_symsvec, jl_alloc_svec
\* and jl_svec_fill.
entry_empty(op, n) ==
    op \in {"ijl_svec", "jl_perm_symsvec", "jl_alloc_svec", "jl_svec_fill"} /\ n = 0
\* The allocator a constructor calls: its own call, or jl_alloc_svec_uninit's.
entry_via_uninit(op) == op \notin {"jl_perm_symsvec", "jl_svec1", "jl_svec2"}
\* The n == 0 return of jl_alloc_svec_uninit that never returns.
uninit_empty_never(n) == FALSE
\* The n == 0 return of jl_alloc_svec_uninit.
uninit_empty(n) == n = 0
\* The loop test i < n: the next iteration (jl_perm_symsvec interns the
\* name first), or the return.
loop_pc(op, i, n) ==
    IF op = "jl_alloc_svec_uninit" THEN "ret"
    ELSE IF i < n THEN (IF op = "jl_perm_symsvec" THEN "sym" ELSE "loop")
    ELSE "ret"
\* The vector under construction put on the root stack as soon as it exists.
roots_after_alloc_pushed(rs, jv) == rs \cup {jv}
\* The roots after a constructor's allocation: jv is a plain local variable.
roots_after_alloc(rs, jv) == rs
\* The store of a loop going to the object allocated last, whoever did.
store_target_newest(h, f) ==
    CHOOSE v \in Allocated(h) : \A w \in Allocated(h) : w <= v
\* The vector a loop's jl_svecset stores into: the caller's own jv.
store_target(h, f) == f.jv
\* The value iteration i of a constructor's loop stores.
store_value(h, f) ==
    CASE f.op \in {"ijl_svec", "jl_svec1", "jl_svec2"} -> f.args[f.i + 1]
      [] f.op = "jl_perm_symsvec" -> f.sym
      [] f.op = "jl_alloc_svec" -> NULL
      [] f.op = "jl_svec_copy" -> jl_svecref(h, f.a, f.i)
      [] f.op = "jl_svec_fill" -> f.x

\* The slots of v stored since v was allocated.
Written(v) == IF v \in DOMAIN written THEN written[v] ELSE {}
SetWritten(v, ws) == [w \in DOMAIN written \cup {v} |-> IF w = v THEN ws ELSE written[w]]
\* A thread stopped at a call that may run the collector.
AtSafepoint(f) == f.pc \in {"gc_alloc", "permobj", "sym"}
\* A thread the collector can stop the world around.
Stoppable(f) == f.pc = "idle" \/ AtSafepoint(f)
\* The vectors a caller can pass: rooted ones and jl_emptysvec.
Held == roots \cup {jl_emptysvec}

\* Where a constructor called with n is when it first touches shared state:
\* returning jl_emptysvec from its own n == 0 test, past jl_alloc_svec_uninit's
\* n == 0 return and on to its loop, or at its allocator call.
entry_pc(op, n) ==
    IF entry_empty(op, n) THEN "ret"
    ELSE IF op = "jl_perm_symsvec" THEN "permobj"
    ELSE IF entry_via_uninit(op) /\ uninit_empty(n) THEN loop_pc(op, 0, n)
    ELSE "gc_alloc"

\* A thread enters a constructor and runs to its first allocator call or to
\* its return.
Enter(t, op, n, args, a, x) ==
    /\ th[t].pc = "idle"
    /\ th' = [th EXCEPT ![t] =
                 [IdleFrame EXCEPT !.op = op, !.n = n, !.args = args, !.a = a, !.x = x,
                                   !.pc = entry_pc(op, n)]]
    /\ UNCHANGED <<heap, symtab, roots, written>>

\* Argument lists without repeats.
Distinct(S, n) == {q \in [1..n -> S] : \A j, k \in 1..n : q[j] = q[k] => j = k}

Step_ijl_svec(t) == \E n \in 0..MaxLen : \E args \in Distinct(Values, n) :
    Enter(t, "ijl_svec", n, args, jl_emptysvec, NULL)
Step_jl_perm_symsvec(t) == \E n \in 0..MaxLen : \E names \in Distinct(Names, n) :
    Enter(t, "jl_perm_symsvec", n, names, jl_emptysvec, NULL)
Step_jl_svec1(t) == \E a \in Values :
    Enter(t, "jl_svec1", 1, <<a>>, jl_emptysvec, NULL)
Step_jl_svec2(t) == \E a \in Values : \E b \in Values \ {a} :
    Enter(t, "jl_svec2", 2, <<a, b>>, jl_emptysvec, NULL)
Step_jl_alloc_svec_uninit(t) == \E n \in 0..MaxLen :
    Enter(t, "jl_alloc_svec_uninit", n, <<>>, jl_emptysvec, NULL)
Step_jl_alloc_svec(t) == \E n \in 0..MaxLen :
    Enter(t, "jl_alloc_svec", n, <<>>, jl_emptysvec, NULL)
Step_jl_svec_copy(t) == \E a \in Held :
    Enter(t, "jl_svec_copy", svec_len(heap, a), <<>>, a, NULL)
Step_jl_svec_fill(t) == \E n \in 0..MaxLen : \E x \in Values :
    Enter(t, "jl_svec_fill", n, <<>>, jl_emptysvec, x)

\* jl_gc_alloc and jl_svec_set_len_unsafe: the new object is the thread's jv.
Step_gc_alloc(t) ==
    LET f == th[t]
    IN  /\ f.pc = "gc_alloc"
        /\ Cardinality(Allocated(heap)) < MaxObjs
        /\ \E raw \in RawObj(f.n) :
               LET r == jl_gc_alloc(heap, raw)
               IN  /\ heap' = jl_svec_set_len_unsafe(r.heap, r.ret, f.n)
                   /\ written' = SetWritten(r.ret, {})
                   /\ roots' = roots_after_alloc(roots, r.ret)
                   /\ th' = [th EXCEPT ![t] =
                                [f EXCEPT !.jv = r.ret, !.ret = r.ret,
                                          !.raw = IF f.op = "jl_alloc_svec_uninit"
                                                  THEN raw.data ELSE <<>>,
                                          !.ev.gc = @ + 1, !.pc = loop_pc(f.op, 0, f.n)]]
        /\ UNCHANGED symtab

\* jl_gc_permobj and jl_svec_set_len_unsafe in jl_perm_symsvec.
Step_permobj(t) ==
    LET f == th[t]
    IN  /\ f.pc = "permobj"
        /\ Cardinality(Allocated(heap)) < MaxObjs
        /\ \E raw \in RawObj(f.n) :
               LET r == jl_gc_permobj(heap, raw)
               IN  /\ heap' = jl_svec_set_len_unsafe(r.heap, r.ret, f.n)
                   /\ written' = SetWritten(r.ret, {})
                   /\ roots' = roots_after_alloc(roots, r.ret)
                   /\ th' = [th EXCEPT ![t] =
                                [f EXCEPT !.jv = r.ret, !.ret = r.ret,
                                          !.ev.perm = @ + 1, !.pc = loop_pc(f.op, 0, f.n)]]
        /\ UNCHANGED symtab

\* jl_symbol(va_arg(args, const char*)) of iteration i of jl_perm_symsvec.
Step_symbol(t) ==
    LET f == th[t]
        s == jl_symbol(symtab, f.args[f.i + 1])
    IN  /\ f.pc = "sym"
        /\ symtab' = s.symtab
        /\ th' = [th EXCEPT ![t] =
                     [f EXCEPT !.sym = s.ret, !.ev.va = @ + 1, !.ev.interns = @ + 1,
                               !.pc = "loop"]]
        /\ UNCHANGED <<heap, roots, written>>

\* jl_svecset(jv, i, value) of iteration i of a constructor's loop, and i++.
Step_store(t) ==
    LET f == th[t]
        v == store_target(heap, f)
    IN  /\ f.pc = "loop"
        /\ heap' = jl_svecset(heap, v, f.i, store_value(heap, f))
        /\ written' = SetWritten(v, Written(v) \cup {f.i})
        /\ th' = [th EXCEPT ![t] =
                     [f EXCEPT !.i = @ + 1, !.ev.writes = @ + 1,
                               !.ev.va = IF f.op = "ijl_svec" THEN @ + 1 ELSE @,
                               !.pc = loop_pc(f.op, f.i + 1, f.n)]]
        /\ UNCHANGED <<symtab, roots>>

\* The caller stores the returned vector where the collector traces it. A
\* caller of jl_alloc_svec_uninit may not: it has slots to fill first.
Publish(t) ==
    /\ th[t].pc = "ret"
    /\ th[t].op # "jl_alloc_svec_uninit" \/ th[t].ret = jl_emptysvec
    /\ roots' = roots \cup ({th[t].ret} \ {jl_emptysvec})
    /\ th' = [th EXCEPT ![t] = IdleFrame]
    /\ UNCHANGED <<heap, symtab, written>>

\* The caller lets go of the returned vector.
Drop(t) ==
    /\ th[t].pc = "ret"
    /\ th' = [th EXCEPT ![t] = IdleFrame]
    /\ UNCHANGED <<heap, symtab, roots, written>>

\* A root goes away; not one a running jl_svec_copy reads from.
Unroot ==
    \E v \in roots :
        /\ \A t \in Threads : th[t].pc = "idle" \/ th[t].a # v
        /\ roots' = roots \ {v}
        /\ UNCHANGED <<heap, symtab, th, written>>

\* A collection, at a safepoint of one thread with every other thread
\* stoppable: what is neither rooted nor permanent is freed.
Collect ==
    LET live == {v \in DOMAIN heap : heap[v].perm \/ v \in roots}
    IN  /\ \E t \in Threads : AtSafepoint(th[t])
        /\ \A t \in Threads : Stoppable(th[t])
        /\ heap' = [v \in live |-> heap[v]]
        /\ written' = [v \in DOMAIN written \cap live |-> written[v]]
        /\ UNCHANGED <<symtab, th, roots>>

InitSteps ==
    /\ heap = (jl_emptysvec :> [length |-> 0, data |-> <<>>, perm |-> TRUE])
    /\ symtab = [nm \in {} |-> NULL]
    /\ last = NoCall
    /\ th = [t \in Threads |-> IdleFrame]
    /\ roots = {}
    /\ written = [v \in {} |-> {}]
    /\ szreq = NoSize

NextSteps ==
    \/ \E t \in Threads : Step_ijl_svec(t) /\ UNCHANGED <<last, szreq>>
    \/ \E t \in Threads : Step_jl_perm_symsvec(t) /\ UNCHANGED <<last, szreq>>
    \/ \E t \in Threads : Step_jl_svec1(t) /\ UNCHANGED <<last, szreq>>
    \/ \E t \in Threads : Step_jl_svec2(t) /\ UNCHANGED <<last, szreq>>
    \/ \E t \in Threads : Step_jl_alloc_svec_uninit(t) /\ UNCHANGED <<last, szreq>>
    \/ \E t \in Threads : Step_jl_alloc_svec(t) /\ UNCHANGED <<last, szreq>>
    \/ \E t \in Threads : Step_jl_svec_copy(t) /\ UNCHANGED <<last, szreq>>
    \/ \E t \in Threads : Step_jl_svec_fill(t) /\ UNCHANGED <<last, szreq>>
    \/ \E t \in Threads : Step_gc_alloc(t) /\ UNCHANGED <<last, szreq>>
    \/ \E t \in Threads : Step_permobj(t) /\ UNCHANGED <<last, szreq>>
    \/ \E t \in Threads : Step_symbol(t) /\ UNCHANGED <<last, szreq>>
    \/ \E t \in Threads : Step_store(t) /\ UNCHANGED <<last, szreq>>
    \/ \E t \in Threads : Publish(t) /\ UNCHANGED <<last, szreq>>
    \/ \E t \in Threads : Drop(t) /\ UNCHANGED <<last, szreq>>
    \/ Unroot /\ UNCHANGED <<last, szreq>>
    \/ Collect /\ UNCHANGED <<last, szreq>>

SpecSteps == InitSteps /\ [][NextSteps]_vars

\* ------------------------------------------------------------------ claims
\* The constructors that take or derive a length n and may be called with n = 0.
SizedCtors ==
    {"ijl_svec", "jl_perm_symsvec", "jl_alloc_svec_uninit", "jl_alloc_svec",
     "jl_svec_copy", "jl_svec_fill"}
AllCtors == SizedCtors \cup {"jl_svec1", "jl_svec2"}

\* C1: every construction with n = 0 (uninitialized, zeroed, filled, copy of a
\* zero-length source, variadic, permanent-symbol) returns jl_emptysvec, the one
\* zero-length vector there is, whatever calls came before.
C1_EmptySingleton ==
    /\ (last.op \in SizedCtors /\ last.n = 0) => last.ret = jl_emptysvec
    /\ \A v \in DOMAIN heap : svec_len(heap, v) = 0 => v = jl_emptysvec
C1_Witness ==
    /\ last.op = "jl_svec_copy" /\ last.n = 0 /\ last.ret = jl_emptysvec
    /\ Cardinality(Allocated(heap)) = MaxVecs

\* C2: for every constructor called with n > 0 (jl_svec1 and jl_svec2 with
\* n = 1 and 2), the length of the returned vector is n.
C2_Length ==
    (last.op \in AllCtors /\ last.n > 0) =>
        /\ jl_svec_len(heap, last.ret) = last.n
        /\ Len(heap[last.ret].data) = last.n
C2_Witness ==
    /\ last.op = "jl_svec_copy" /\ last.n = 2
    /\ jl_svec_len(heap, last.ret) = 2

\* C3: after jl_svec_fill(n, x) with n > 0, jl_svec_ref of every slot i in
\* [0, n) returns x itself.
C3_Fill ==
    (last.op = "jl_svec_fill" /\ last.n > 0) =>
        \A i \in 0..(last.n - 1) :
            LET r == jl_svec_ref(heap, last.ret, i)
            IN  ~r.thrown /\ r.val = last.x
C3_Witness ==
    /\ last.op = "jl_svec_fill" /\ last.n = 2 /\ last.x = "b"
    /\ \A i \in 1..2 : last.raw[i] = JUNK

\* C4 as stated: jl_svec_copy(a) returns a vector other than a whose slots hold
\* what a's slots hold, for every source a.
C4_CopyDistinct_Any ==
    last.op = "jl_svec_copy" =>
        /\ last.ret # last.t
        /\ \A i \in 0..(last.n - 1) :
               jl_svecref(heap, last.ret, i) = jl_svecref(heap, last.t, i)
\* C4 amended: jl_svec_copy(a) of a source of length n > 0 returns a vector
\* other than a, of length n, whose slot i holds what a's slot i holds.
C4_CopyShallow ==
    (last.op = "jl_svec_copy" /\ last.n > 0) =>
        /\ last.ret # last.t
        /\ svec_len(heap, last.ret) = svec_len(heap, last.t)
        /\ \A i \in 0..(last.n - 1) :
               jl_svecref(heap, last.ret, i) = jl_svecref(heap, last.t, i)
C4_Witness ==
    /\ last.op = "jl_svec_copy" /\ last.n = 2
    /\ jl_svecref(heap, last.t, 0) = "a" /\ jl_svecref(heap, last.t, 1) = NULL
    /\ last.raw[1] = JUNK /\ last.raw[2] = JUNK

C6_RefChecked ==
    /\ \A t \in DOMAIN heap : \A i \in Indices(heap, t) :
           LET r == jl_svec_ref(heap, t, i)
           IN  /\ r.thrown <=> jl_svec_isassigned(heap, t, i) = 0
               /\ ~r.thrown => (r.val = jl_svecref(heap, t, i) /\ r.val # NULL)
    /\ last.op = "jl_svec_ref" =>
           /\ last.thrown <=> jl_svec_isassigned(heap, last.t, last.i) = 0
           /\ ~last.thrown => (last.val = jl_svecref(heap, last.t, last.i) /\ last.val # NULL)
C6_Witness ==
    /\ last.op = "jl_svec_ref" /\ last.thrown
    /\ svec_len(heap, last.t) = 2
    /\ \E j \in Indices(heap, last.t) : ~jl_svec_ref(heap, last.t, j).thrown

\* C7: ijl_svec(n, x_0, ..., x_{n-1}) with n > 0 returns a vector of length n
\* whose slot i holds x_i, every slot assigned; jl_svec1(a) and jl_svec2(a, b)
\* give the slots of ijl_svec(1, a) and ijl_svec(2, a, b).
C7_Variadic ==
    /\ (last.op = "ijl_svec" /\ last.n > 0) =>
           /\ jl_svec_len(heap, last.ret) = last.n
           /\ \A i \in 0..(last.n - 1) :
                  /\ jl_svecref(heap, last.ret, i) = last.args[i + 1]
                  /\ jl_svec_isassigned(heap, last.ret, i) = 1
    /\ last.op \in {"jl_svec1", "jl_svec2"} =>
           LET r == ijl_svec(heap, last.n, last.args, [length |-> 0, data |-> last.raw])
           IN  /\ jl_svec_len(heap, last.ret) = jl_svec_len(r.heap, r.ret)
               /\ heap[last.ret].data = r.heap[r.ret].data
               /\ \A i \in 0..(last.n - 1) :
                      jl_svecref(heap, last.ret, i) = last.args[i + 1]
C7_Witness ==
    /\ last.op = "ijl_svec" /\ last.n = 2 /\ last.args = <<"b", "a">>
    /\ jl_svecref(heap, last.ret, 0) = "b" /\ jl_svecref(heap, last.ret, 1) = "a"

\* C8: jl_perm_symsvec(n, name_0, ...) with n > 0 returns a vector that did not
\* exist before the call, in the permanent region, whose slot i holds the
\* interned symbol of name_i, interned in argument order; symbols interned
\* before stay what they were, so an earlier vector built from the same names
\* is another vector with the same symbols in its slots.
C8_PermSymbols ==
    [][(last'.op = "jl_perm_symsvec" /\ last'.n > 0) =>
          LET v == last'.ret
              names == last'.args
          IN  /\ v \notin DOMAIN heap
              /\ heap'[v].perm
              /\ svec_len(heap', v) = last'.n
              /\ \A nm \in DOMAIN symtab : nm \in DOMAIN symtab' /\ symtab'[nm] = symtab[nm]
              /\ \A i \in 1..last'.n :
                     /\ names[i] \in DOMAIN symtab'
                     /\ jl_svecref(heap', v, i - 1) = symtab'[names[i]]
              /\ names[1] \notin DOMAIN symtab =>
                     symtab'[names[1]] = SymObjs[Cardinality(DOMAIN symtab) + 1]
              /\ \A w \in DOMAIN heap :
                     (/\ svec_len(heap, w) = last'.n
                      /\ \A i \in 1..last'.n :
                             /\ names[i] \in DOMAIN symtab
                             /\ jl_svecref(heap, w, i - 1) = symtab[names[i]])
                     => (w # v /\ heap'[w].data = heap'[v].data)]_vars
C8_Witness ==
    /\ last.op = "jl_perm_symsvec" /\ last.n = 2 /\ last.args = <<"q", "p">>
    /\ \E w \in Allocated(heap) \ {last.ret} :
           heap[w].perm /\ heap[w].data = heap[last.ret].data
    /\ heap[last.ret].data = <<"s1", "s2">>

\* C9: jl_alloc_svec(n) with n > 0 returns a vector whose every slot holds
\* NULL (jl_svec_isassigned is 0), whatever the raw storage held.
C9_ZeroAlloc ==
    (last.op = "jl_alloc_svec" /\ last.n > 0) =>
        \A i \in 0..(last.n - 1) :
            /\ jl_svecref(heap, last.ret, i) = NULL
            /\ jl_svec_isassigned(heap, last.ret, i) = 0
C9_Witness ==
    /\ last.op = "jl_alloc_svec" /\ last.n = 2
    /\ \A i \in 1..2 : last.raw[i] = JUNK
    /\ \A i \in 0..1 : jl_svec_isassigned(heap, last.ret, i) = 0

\* C10: jl_svecset(t, i, x) at a valid index leaves slot i of t holding x and
\* changes nothing else: no vector appears or disappears, every length and
\* every other slot of every vector (jl_emptysvec included) stays; and no step
\* of any operation changes the length of an existing vector.
C10_SetFrame ==
    [][/\ last'.op = "jl_svecset" =>
              /\ DOMAIN heap' = DOMAIN heap
              /\ jl_svecref(heap', last'.t, last'.i) = last'.x
              /\ symtab' = symtab
              /\ \A v \in DOMAIN heap :
                     /\ heap'[v].perm = heap[v].perm
                     /\ Len(heap'[v].data) = Len(heap[v].data)
                     /\ \A j \in Indices(heap, v) :
                            (v # last'.t \/ j # last'.i) =>
                                jl_svecref(heap', v, j) = jl_svecref(heap, v, j)
       /\ \A v \in DOMAIN heap :
              v \in DOMAIN heap' /\ svec_len(heap', v) = svec_len(heap, v)]_vars
C10_Witness ==
    /\ last.op = "jl_svecset" /\ last.i = 1 /\ last.x = "b"
    /\ last.t \in Allocated(heap) /\ svec_len(heap, last.t) = 2
    /\ jl_svecref(heap, last.t, 0) = JUNK
    /\ \E v \in Allocated(heap) \ {last.t} : jl_svecref(heap, v, 0) = "a"

C13_SizeExact ==
    szreq.op # "none" => szreq.size = BytesStored(szreq.n)

\* A thread whose vector exists and whose constructor has not returned yet.
UnderConstruction(f) == f.pc \in {"loop", "sym"}
\* The slots of v no store has reached since v was allocated.
Unwritten(v) == Indices(heap, v) \ Written(v)
\* A collection can run now: one thread is at an allocation call and every
\* other thread is stopped.
CollectorMayRun ==
    /\ \E t \in Threads : AtSafepoint(th[t])
    /\ \A t \in Threads : Stoppable(th[t])

\* C11: with a collector that may run at any allocation call, every vector a
\* root holds exists and has no slot holding raw uninitialized memory, and a
\* vector under construction that still has an unwritten slot is in no root
\* whenever a collection can run (jl_perm_symsvec between its slot writes
\* included).
C11_RootedInitialized ==
    /\ \A v \in roots :
           /\ v \in DOMAIN heap
           /\ \A i \in Indices(heap, v) : jl_svecref(heap, v, i) # JUNK
    /\ CollectorMayRun =>
           \A t \in Threads :
               (UnderConstruction(th[t]) /\ Unwritten(th[t].jv) # {}) =>
                   th[t].jv \notin roots
C11_Witness ==
    /\ CollectorMayRun
    /\ th[1].op = "jl_perm_symsvec" /\ th[1].pc = "sym" /\ th[1].n = 2 /\ th[1].i = 1
    /\ Unwritten(th[1].jv) = {1} /\ jl_svecref(heap, th[1].jv, 1) = JUNK
    /\ th[2].pc = "gc_alloc"
    /\ roots # {}

\* C14: a construction with n = 0 never stands at a call of the collectible or
\* the permanent allocator, has allocated nothing, written no slot, read no
\* variable argument and interned no symbol, and returns jl_emptysvec.
C14_EmptyNoEffect ==
    \A t \in Threads :
        (th[t].op \in SizedCtors /\ th[t].n = 0) =>
            /\ th[t].pc = "ret"
            /\ th[t].ev = NoEvents
            /\ th[t].ret = jl_emptysvec
C14_Witness ==
    /\ th[1].op = "jl_svec_copy" /\ th[1].n = 0 /\ th[1].pc = "ret"
    /\ th[2].op = "jl_alloc_svec_uninit" /\ th[2].n = 0 /\ th[2].pc = "ret"
    /\ Cardinality(Allocated(heap)) = MaxObjs

\* What the call of frame f returns when it runs alone on the present heap
\* and symbol table: its length and slots.
Alone(f) ==
    LET raw == [length |-> 0,
                data |-> IF f.op = "jl_alloc_svec_uninit" THEN f.raw
                         ELSE [i \in 1..f.n |-> JUNK]]
        r == CASE f.op = "ijl_svec" -> ijl_svec(heap, f.n, f.args, raw)
               [] f.op = "jl_perm_symsvec" ->
                      jl_perm_symsvec(heap, symtab, f.n, f.args, raw)
               [] f.op = "jl_svec1" -> jl_svec1(heap, f.args[1], raw)
               [] f.op = "jl_svec2" -> jl_svec2(heap, f.args[1], f.args[2], raw)
               [] f.op = "jl_alloc_svec_uninit" -> jl_alloc_svec_uninit(heap, f.n, raw)
               [] f.op = "jl_alloc_svec" -> jl_alloc_svec(heap, f.n, raw)
               [] f.op = "jl_svec_copy" -> jl_svec_copy(heap, f.a, raw)
               [] f.op = "jl_svec_fill" -> jl_svec_fill(heap, f.n, f.x, raw)
    IN  [length |-> svec_len(r.heap, r.ret), data |-> r.heap[r.ret].data]
\* A thread between its allocation and the caller taking the result.
HasVector(f) == f.n > 0 /\ f.pc \in {"loop", "sym", "ret"}

\* C15: with two threads running constructors with n > 0 under every
\* interleaving of their allocation and store steps, a returned vector has
\* the length and the slots the same call gives when run alone, two
\* constructions in flight never have the same vector, and the slots stored
\* into a thread's vector are exactly those its own loop has passed.
C15_Independent ==
    /\ \A t \in Threads :
           (th[t].pc = "ret" /\ th[t].n > 0) =>
               /\ svec_len(heap, th[t].ret) = Alone(th[t]).length
               /\ heap[th[t].ret].data = Alone(th[t]).data
    /\ \A t \in Threads :
           HasVector(th[t]) =>
               /\ th[t].jv \in Allocated(heap)
               /\ Written(th[t].jv) = 0..(th[t].i - 1)
               /\ \A u \in Threads \ {t} : HasVector(th[u]) => th[u].jv # th[t].jv
C15_Witness ==
    /\ th[1].op = "jl_svec_fill" /\ th[1].n = 2 /\ th[1].pc = "ret" /\ th[1].jv = 2
    /\ th[2].op = "ijl_svec" /\ th[2].n = 2 /\ th[2].pc = "loop" /\ th[2].i = 1
    /\ th[2].jv = 1
    /\ jl_svecref(heap, 1, 1) = JUNK
====
